---- MODULE Spec2Model ----
(***************************************************************************)
(* Model of HT/partitioned-heat/fenics-fenics/heat.py: one participant of  *)
(* a Dirichlet-Neumann coupled heat equation.  The module-level script is  *)
(* a sequential program; pc is its position.  The FEniCS solver and the    *)
(* coupling adapter are collaborators: the solver contributes the          *)
(* assembled vectors (drawn from small sets), the adapter the outcome of   *)
(* initialize / is_coupling_ongoing / advance.                             *)
(*                                                                         *)
(* Units.  Times and step sizes are whole multiples of one time quantum.   *)
(* Residuals are counted in units of 0.5e-10, so that the assertion        *)
(* tolerance 10**-10 of line 85 is 2 units.  Coordinates are a pair        *)
(* (base, off): base counts half units of length (x_coupling = 1.5 is 3),  *)
(* off counts multiples of 1e-14 around it (tol = 1E-14 is 1).             *)
(***************************************************************************)
EXTENDS Integers, Sequences, FiniteSets, TLC

VARIABLES
    pc,                         \* position of the script
    args,                       \* parsed command line: [dirichlet, neumann]
    problem,                    \* ProblemType, "unset" while unbound
    calls,                      \* number of calls made to each collaborator operation
    i,                          \* flux evaluator: nodes its loop has visited in this call
    node,                       \* flux evaluator: fluxes_vector[i], area[i] and
                                \* fluxes.vector()[i] of the node visited last
    t, n, dt,                   \* time state of the controller
    fenics_dt,                  \* precice.fenics_dt, the local preferred step
    precice_dt,                 \* negotiated step returned by the last advance (0: unbound)
    precice_timestep_complete,  \* window-complete flag returned by the last advance
    negotiated,                 \* step most recently returned by the coupling library
    u_D_t, f_t,                 \* evaluation time held by the expressions u_D and f
    u_ref_t,                    \* evaluation time of u_D when u_ref was last interpolated
    writes,                     \* number of dumps written to each file series
    completes,                  \* number of advance calls that returned windowComplete
    lib_ongoing,                \* adapter state: the coupled run has not ended
    ongoing_seen,               \* result of the last is_coupling_ongoing() call
    last_adv,                   \* the last advance call: its arguments and what it returned
    probe                       \* a point handed to the boundary predicates, with their answers

vars == <<pc, args, problem, calls, i, node, t, n, dt, fenics_dt,
          precice_dt, precice_timestep_complete, negotiated, u_D_t, f_t, u_ref_t,
          writes, completes, lib_ongoing, ongoing_seen, last_adv, probe>>

\* ---------------------------------------------------------------- bounds
MaxAdvance == 3     \* advance calls per run
MaxDt == 2          \* largest step size (time quanta) a collaborator hands out
NumNodes == 2       \* degrees of freedom of the function space (area.shape[0])
ResMax == 2         \* largest residual magnitude (units of 0.5e-10)
AreaMax == 2        \* largest boundary measure of a node
OffMax == 2         \* largest offset of a probe point from a grid line (units of 1e-14)

\* ---------------------------------------------------------------- constants of the program
ResTol == 2         \* 10**-10 in units of 0.5e-10
tol == 1            \* 1E-14 in units of 1e-14
y_bottom == 0
y_top == 2
x_left == 0
x_right == 4
x_coupling == 3

Min(a, b) == IF a <= b THEN a ELSE b
Abs(a) == IF a < 0 THEN -a ELSE a

Steps == 1..MaxDt

NoCall == [called |-> FALSE, t |-> 0, n |-> 0, dt |-> 0, outgoing |-> "none",
           rt |-> 0, rn |-> 0, complete |-> FALSE, precice_dt |-> 0, accepted |-> FALSE]
NoNode == [fluxes_vector |-> 0, area |-> 0, flux |-> <<0, 1>>]
NoProbe == [asked |-> FALSE, x |-> <<0, 0>>, y |-> <<0, 0>>, on_boundary |-> FALSE,
            coupling |-> FALSE, complement |-> FALSE]
NoCalls == [k \in {"mesh", "adapter", "initialize", "solve", "advance", "finalize"} |-> 0]
NoWrites == [k \in {"temperature", "ref", "error"} |-> 0]

\* ---------------------------------------------------------------- geometry predicates
\* fenics near(x, x0, eps): x0 - eps <= x <= x0 + eps.  Grid lines are half a
\* unit of length apart, far more than eps.
near(x, x0, eps) == x[1] = x0 /\ Abs(x[2]) <= eps

CouplingBoundary_inside(x, on_boundary) ==
    IF on_boundary /\ near(x[1], x_coupling, tol)
       /\ ~near(x[2], y_bottom, tol) /\ ~near(x[2], y_top, tol)
    THEN TRUE ELSE FALSE

\* Variant: the complement tests the interface line itself, not the coupling predicate.
ComplementaryBoundary_inside_OffLine(x, on_boundary) ==
    IF on_boundary /\ ~near(x[1], x_coupling, tol)
    THEN TRUE ELSE FALSE

ComplementaryBoundary_inside(x, on_boundary) ==
    IF on_boundary /\ ~CouplingBoundary_inside(x, on_boundary)
    THEN TRUE ELSE FALSE

\* ---------------------------------------------------------------- flux evaluator
\* Variant: the assertion of line 85 is not evaluated.
FluxAtNode_NoAssert(r, a) ==
    IF a # 0
    THEN [ok |-> TRUE, flux |-> <<r, a>>]
    ELSE [ok |-> TRUE, flux |-> <<r, 1>>]

\* One pass of the loop body of lines 82-86 for a node with residual r and
\* boundary measure a.  A flux value is the pair <<numerator, denominator>> of
\* the quotient the code computes; an unscaled residual r is <<r, 1>>.  ok is
\* FALSE when the assertion of line 85 fails.
FluxAtNode(r, a) ==
    IF a # 0
    THEN [ok |-> TRUE, flux |-> <<r, a>>]
    ELSE IF Abs(r) < ResTol
         THEN [ok |-> TRUE, flux |-> <<r, 1>>]
         ELSE [ok |-> FALSE, flux |-> <<0, 1>>]

\* ---------------------------------------------------------------- coupling adapter
\* What one advance(outgoing, u_np1, u_n, t, dt, n) call may return: a rejected
\* step leaves (t, n) where they were and closes no window, an accepted step
\* moves them on by dt and 1, and the coupled run can end only with a window.
AdvanceOutcomes(tt, nn, step) ==
    { [t |-> tt, n |-> nn, complete |-> FALSE, precice_dt |-> d,
       accepted |-> FALSE, ongoing |-> TRUE] : d \in Steps }
    \cup
    { [t |-> tt + step, n |-> nn + 1, complete |-> c[1], precice_dt |-> d,
       accepted |-> TRUE, ongoing |-> c[2]] :
         c \in {<<FALSE, TRUE>>, <<TRUE, TRUE>>, <<TRUE, FALSE>>}, d \in Steps }

\* ---------------------------------------------------------------- the script
Init ==
    /\ pc = "parse"
    /\ args \in [dirichlet : BOOLEAN, neumann : BOOLEAN]
    /\ problem = "unset"
    /\ calls = NoCalls
    /\ i = 0
    /\ node = NoNode
    /\ t = 0 /\ n = 0 /\ dt = 0
    /\ fenics_dt = 0
    /\ precice_dt = 0
    /\ precice_timestep_complete = FALSE
    /\ negotiated = 0
    /\ u_D_t = 0 /\ f_t = 0 /\ u_ref_t = 0
    /\ writes = NoWrites
    /\ completes = 0
    /\ lib_ongoing = TRUE
    /\ ongoing_seen = "unchecked"
    /\ last_adv = NoCall
    /\ probe = NoProbe

timeState == <<t, n, dt, fenics_dt, precice_dt, precice_timestep_complete, negotiated>>
exprState == <<u_D_t, f_t, u_ref_t>>
fluxState == <<i, node>>
libState == <<completes, lib_ongoing, ongoing_seen, last_adv>>

\* Variant: the test of line 104 (both flags) is missing.
Resolve_NoBothCheck ==
    /\ pc = "parse"
    /\ problem' = IF args.neumann THEN "NEUMANN"
                  ELSE IF args.dirichlet THEN "DIRICHLET" ELSE "unset"
    /\ pc' = IF ~(args.dirichlet \/ args.neumann) THEN "config_error" ELSE "setup"
    /\ UNCHANGED <<args, calls, timeState, exprState, fluxState, libState, writes, probe>>

\* lines 97-107: role selection
Resolve ==
    /\ pc = "parse"
    /\ problem' = IF args.neumann THEN "NEUMANN"
                  ELSE IF args.dirichlet THEN "DIRICHLET" ELSE "unset"
    /\ pc' = IF (args.dirichlet /\ args.neumann) \/ ~(args.dirichlet \/ args.neumann)
             THEN "config_error" ELSE "setup"
    /\ UNCHANGED <<args, calls, timeState, exprState, fluxState, libState, writes, probe>>

\* lines 109-163: mesh, function space, expressions u_D and f_N (t = 0), bcs, u_n
BuildMesh ==
    /\ pc = "setup"
    /\ problem \in {"DIRICHLET", "NEUMANN"}
    /\ calls' = [calls EXCEPT !["mesh"] = @ + 1]
    /\ u_D_t' = 0
    /\ pc' = "adapter"
    /\ UNCHANGED <<args, problem, timeState, f_t, u_ref_t, fluxState, libState,
                   writes, probe>>

\* line 165: the adapter reads its configuration, the local preferred step with it
CreateAdapter ==
    /\ pc = "adapter"
    /\ calls' = [calls EXCEPT !["adapter"] = @ + 1]
    /\ fenics_dt' \in Steps
    /\ pc' = "initialize"
    /\ UNCHANGED <<args, problem, t, n, dt, precice_dt, precice_timestep_complete,
                   negotiated, exprState, fluxState, libState, writes, probe>>

\* lines 167-172: dt = precice.initialize(...)
Initialize ==
    /\ pc = "initialize"
    /\ calls' = [calls EXCEPT !["initialize"] = @ + 1]
    /\ \E d \in Steps : dt' = d /\ negotiated' = d
    /\ lib_ongoing' \in BOOLEAN
    /\ pc' = "prepare"
    /\ UNCHANGED <<args, problem, t, n, fenics_dt, precice_dt, precice_timestep_complete,
                   exprState, fluxState, completes, ongoing_seen, last_adv,
                   writes, probe>>

\* lines 174-213: forms, t = 0, u_ref at t = 0, n = 0, first dumps, u_D.t = f.t = t + dt
Prepare ==
    /\ pc = "prepare"
    /\ t' = 0
    /\ n' = 0
    /\ u_ref_t' = u_D_t
    /\ writes' = [k \in DOMAIN writes |-> writes[k] + 1]
    /\ u_D_t' = 0 + dt
    /\ f_t' = 0 + dt
    /\ pc' = "check"
    /\ UNCHANGED <<args, problem, calls, dt, fenics_dt, precice_dt,
                   precice_timestep_complete, negotiated, fluxState, libState, probe>>

\* Variant: the loop tests its condition after the body (do ... while).
CheckOngoing_DoWhile ==
    /\ pc = "check"
    /\ ongoing_seen' = IF lib_ongoing THEN "ongoing" ELSE "ended"
    /\ pc' = IF lib_ongoing \/ calls["solve"] = 0 THEN "solve" ELSE "finalize"
    /\ UNCHANGED <<args, problem, calls, timeState, exprState, fluxState, completes,
                   lib_ongoing, last_adv, writes, probe>>

\* line 215: while precice.is_coupling_ongoing()
CheckOngoing ==
    /\ pc = "check"
    /\ ongoing_seen' = IF lib_ongoing THEN "ongoing" ELSE "ended"
    /\ pc' = IF lib_ongoing THEN "solve" ELSE "finalize"
    /\ UNCHANGED <<args, problem, calls, timeState, exprState, fluxState, completes,
                   lib_ongoing, last_adv, writes, probe>>

\* line 220: solve(a == L, u_np1, bcs); the Dirichlet role goes on to line 224
Solve ==
    /\ pc = "solve"
    /\ calls["advance"] < MaxAdvance
    /\ calls' = [calls EXCEPT !["solve"] = @ + 1]
    /\ pc' = IF problem = "DIRICHLET" THEN "flux" ELSE "advance"
    /\ UNCHANGED <<args, problem, timeState, exprState, fluxState, libState, writes, probe>>

\* lines 81-86: the loop visits node i of the vectors assembled in lines 77 and
\* 80; a failed assertion (line 85) ends the process
FluxNode ==
    /\ pc = "flux"
    /\ i < NumNodes
    /\ \E r \in (-ResMax)..ResMax, a \in 0..AreaMax :
         LET res == FluxAtNode(r, a) IN
         IF res.ok
         THEN /\ node' = [fluxes_vector |-> r, area |-> a, flux |-> res.flux]
              /\ i' = i + 1
              /\ pc' = pc
         ELSE /\ node' = [node EXCEPT !.fluxes_vector = r, !.area = a]
              /\ i' = i
              /\ pc' = "aborted"
    /\ UNCHANGED <<args, problem, calls, timeState, exprState, libState, writes, probe>>

\* line 87: return fluxes; the locals of the call are gone
FluxReturn ==
    /\ pc = "flux"
    /\ i = NumNodes
    /\ i' = 0
    /\ node' = NoNode
    /\ pc' = "advance"
    /\ UNCHANGED <<args, problem, calls, timeState, exprState, libState, writes, probe>>

\* Variant: the controller steps t and n itself and ignores the returned pair.
Advance_Optimistic ==
    /\ pc = "advance"
    /\ \E out \in AdvanceOutcomes(t, n, dt) :
         /\ t' = t + dt
         /\ n' = n + 1
         /\ precice_timestep_complete' = out.complete
         /\ precice_dt' = out.precice_dt
         /\ negotiated' = out.precice_dt
         /\ lib_ongoing' = out.ongoing
         /\ completes' = completes + (IF out.complete THEN 1 ELSE 0)
         /\ last_adv' = [called |-> TRUE, t |-> t, n |-> n, dt |-> dt,
                         outgoing |-> IF problem = "DIRICHLET" THEN "fluxes" ELSE "u_np1",
                         rt |-> out.t, rn |-> out.n, complete |-> out.complete,
                         precice_dt |-> out.precice_dt, accepted |-> out.accepted]
    /\ calls' = [calls EXCEPT !["advance"] = @ + 1]
    /\ pc' = "assign_dt"
    /\ UNCHANGED <<args, problem, dt, fenics_dt, exprState, fluxState, ongoing_seen,
                   writes, probe>>

\* lines 225 / 228: t, n, precice_timestep_complete, precice_dt = precice.advance(...)
Advance ==
    /\ pc = "advance"
    /\ \E out \in AdvanceOutcomes(t, n, dt) :
         /\ t' = out.t
         /\ n' = out.n
         /\ precice_timestep_complete' = out.complete
         /\ precice_dt' = out.precice_dt
         /\ negotiated' = out.precice_dt
         /\ lib_ongoing' = out.ongoing
         /\ completes' = completes + (IF out.complete THEN 1 ELSE 0)
         /\ last_adv' = [called |-> TRUE, t |-> t, n |-> n, dt |-> dt,
                         outgoing |-> IF problem = "DIRICHLET" THEN "fluxes" ELSE "u_np1",
                         rt |-> out.t, rn |-> out.n, complete |-> out.complete,
                         precice_dt |-> out.precice_dt, accepted |-> out.accepted]
    /\ calls' = [calls EXCEPT !["advance"] = @ + 1]
    /\ pc' = "assign_dt"
    /\ UNCHANGED <<args, problem, dt, fenics_dt, exprState, fluxState, ongoing_seen,
                   writes, probe>>

\* Variant: dt goes back to the local preferred step.
AssignDt_Preferred ==
    /\ pc = "assign_dt"
    /\ dt' = fenics_dt
    /\ pc' = "window"
    /\ UNCHANGED <<args, problem, calls, t, n, fenics_dt, precice_dt,
                   precice_timestep_complete, negotiated, exprState, fluxState,
                   libState, writes, probe>>

\* line 230: dt.assign(np.min([precice.fenics_dt, precice_dt]))
AssignDt ==
    /\ pc = "assign_dt"
    /\ dt' = Min(fenics_dt, precice_dt)
    /\ pc' = "window"
    /\ UNCHANGED <<args, problem, calls, t, n, fenics_dt, precice_dt,
                   precice_timestep_complete, negotiated, exprState, fluxState,
                   libState, writes, probe>>

\* Variant: the block runs after every advance.
WindowOutput_EveryStep ==
    /\ pc = "window"
    /\ u_ref_t' = u_D_t
    /\ writes' = [k \in DOMAIN writes |-> writes[k] + 1]
    /\ pc' = "update_bc"
    /\ UNCHANGED <<args, problem, calls, timeState, u_D_t, f_t, fluxState, libState, probe>>

\* Variant: the reference is interpolated at the next evaluation time, as if the
\* block stood after lines 242-243.
WindowOutput_NextTime ==
    /\ pc = "window"
    /\ IF precice_timestep_complete
       THEN /\ u_ref_t' = t + dt
            /\ writes' = [k \in DOMAIN writes |-> writes[k] + 1]
       ELSE UNCHANGED <<u_ref_t, writes>>
    /\ pc' = "update_bc"
    /\ UNCHANGED <<args, problem, calls, timeState, u_D_t, f_t, fluxState, libState, probe>>

\* lines 232-239: if precice_timestep_complete: reference at the time u_D holds,
\* error, one dump per series
WindowOutput ==
    /\ pc = "window"
    /\ IF precice_timestep_complete
       THEN /\ u_ref_t' = u_D_t
            /\ writes' = [k \in DOMAIN writes |-> writes[k] + 1]
       ELSE UNCHANGED <<u_ref_t, writes>>
    /\ pc' = "update_bc"
    /\ UNCHANGED <<args, problem, calls, timeState, u_D_t, f_t, fluxState, libState, probe>>

\* Variant: the expressions' time is stepped on (u_D.t += dt) instead of set.
UpdateBC_Incremental ==
    /\ pc = "update_bc"
    /\ u_D_t' = u_D_t + dt
    /\ f_t' = f_t + dt
    /\ pc' = "check"
    /\ UNCHANGED <<args, problem, calls, timeState, u_ref_t, fluxState, libState,
                   writes, probe>>

\* Variant: the controller also moves its own clock on (t = t + dt).
UpdateBC_Optimistic ==
    /\ pc = "update_bc"
    /\ u_D_t' = t + dt
    /\ f_t' = t + dt
    /\ t' = t + dt
    /\ pc' = "check"
    /\ UNCHANGED <<args, problem, calls, n, dt, fenics_dt, precice_dt,
                   precice_timestep_complete, negotiated, u_ref_t, fluxState, libState,
                   writes, probe>>

\* lines 242-243: u_D.t = t + dt(0); f.t = t + dt(0)
UpdateBC ==
    /\ pc = "update_bc"
    /\ u_D_t' = t + dt
    /\ f_t' = t + dt
    /\ pc' = "check"
    /\ UNCHANGED <<args, problem, calls, timeState, u_ref_t, fluxState, libState,
                   writes, probe>>

\* line 246: precice.finalize()
Finalize ==
    /\ pc = "finalize"
    /\ calls' = [calls EXCEPT !["finalize"] = @ + 1]
    /\ pc' = "done"
    /\ UNCHANGED <<args, problem, timeState, exprState, fluxState, libState, writes, probe>>

Next ==
    \/ Resolve
    \/ BuildMesh
    \/ CreateAdapter
    \/ Initialize
    \/ Prepare
    \/ CheckOngoing
    \/ Solve
    \/ FluxNode
    \/ FluxReturn
    \/ Advance
    \/ AssignDt
    \/ WindowOutput
    \/ UpdateBC
    \/ Finalize

Spec == Init /\ [][Next]_vars

\* ---------------------------------------------------------------- the predicates on their own
\* FEniCS hands each boundary predicate a point and its on_boundary flag.
Coords == {<<b, o>> : b \in x_left..x_right, o \in (-OffMax)..OffMax}

InitGeom ==
    /\ pc = "parse"
    /\ args = [dirichlet |-> TRUE, neumann |-> FALSE]
    /\ problem = "unset"
    /\ calls = NoCalls
    /\ i = 0
    /\ node = NoNode
    /\ t = 0 /\ n = 0 /\ dt = 0
    /\ fenics_dt = 0
    /\ precice_dt = 0
    /\ precice_timestep_complete = FALSE
    /\ negotiated = 0
    /\ u_D_t = 0 /\ f_t = 0 /\ u_ref_t = 0
    /\ writes = NoWrites
    /\ completes = 0
    /\ lib_ongoing = TRUE
    /\ ongoing_seen = "unchecked"
    /\ last_adv = NoCall
    /\ probe \in [asked : {FALSE}, x : Coords, y : Coords, on_boundary : BOOLEAN,
                  coupling : {FALSE}, complement : {FALSE}]

Classify ==
    /\ ~probe.asked
    /\ probe' = [probe EXCEPT
                   !.asked = TRUE,
                   !.coupling = CouplingBoundary_inside(<<probe.x, probe.y>>, probe.on_boundary),
                   !.complement = ComplementaryBoundary_inside(<<probe.x, probe.y>>, probe.on_boundary)]
    /\ UNCHANGED <<pc, args, problem, calls, timeState, exprState, fluxState, libState, writes>>

NextGeom == Classify

SpecGeom == InitGeom /\ [][NextGeom]_vars

\* ================================================================ claims

BadFlags == (args.dirichlet /\ args.neumann) \/ ~(args.dirichlet \/ args.neumann)
BeforeLoop == {"parse", "config_error", "setup", "adapter", "initialize", "prepare"}

\* C1: with both role flags set, or neither, the program ends in a configuration
\* error and has built no mesh and no adapter and made no initialize, solve,
\* advance or finalize call; with exactly one flag set there is no configuration
\* error and the role is the selected one.
C1_RoleResolution ==
    /\ BadFlags => /\ pc \in {"parse", "config_error"}
                   /\ \A k \in DOMAIN calls : calls[k] = 0
    /\ ~BadFlags => /\ pc # "config_error"
                    /\ pc # "parse" =>
                         problem = IF args.dirichlet THEN "DIRICHLET" ELSE "NEUMANN"

C1_Witness == pc = "config_error" /\ args.dirichlet /\ args.neumann

\* C2 as stated: when the process has ended, each file series holds as many dumps
\* as advance calls returned windowComplete = true.
C2_WritesEqualCompletes ==
    pc \in {"done", "aborted"} => \A k \in DOMAIN writes : writes[k] = completes

\* C2, amended: each file series holds one dump more than advance calls returned
\* windowComplete = true (the dump of the initial state, written before the
\* loop), at every loop check and at the end of the process; an advance that
\* returned windowComplete = false is followed by no write.
C2_WritesOnePlusCompletes ==
    \A k \in DOMAIN writes :
        IF pc \in BeforeLoop THEN writes[k] = 0
        ELSE IF pc \in {"assign_dt", "window"}
        THEN writes[k] + (IF precice_timestep_complete THEN 1 ELSE 0) = 1 + completes
        ELSE writes[k] = 1 + completes

C2_Witness ==
    /\ pc = "done"
    /\ completes >= 2
    /\ calls["advance"] > completes
    /\ writes["temperature"] = 3

\* C3: the dt a solve uses and advance is passed never exceeds the step the
\* coupling library returned last (initialize before the first advance), and
\* after every advance dt is min(local preferred step, negotiated step).
C3_Inv ==
    /\ pc \in {"solve", "flux", "advance"} => dt <= negotiated
    /\ (last_adv.called /\ pc # "assign_dt") => dt = Min(fenics_dt, precice_dt)
C3_Step ==
    pc = "advance" => (last_adv'.dt = dt /\ last_adv'.dt <= negotiated)
C3_DtClamped == []C3_Inv /\ [][C3_Step]_vars

C3_Witness ==
    /\ pc = "solve"
    /\ last_adv.called
    /\ precice_dt < fenics_dt
    /\ dt = precice_dt

\* C4: t and n never decrease, and a step of the program changes them only when
\* it is an advance call that the coupling library accepted.
C4_Step ==
    /\ t' >= t
    /\ n' >= n
    /\ (t' # t \/ n' # n) => (pc = "advance" /\ last_adv'.accepted)
C4_TimeMonotone == [][C4_Step]_vars

C4_Witness ==
    /\ last_adv.called
    /\ ~last_adv.accepted
    /\ n >= 1
    /\ t = last_adv.t
    /\ pc = "check"

\* C5: only advance changes t and n; each advance call is passed the (t, n) the
\* call before it returned ((0, 0) for the first), and the call after a rejected
\* step is passed the rejected call's (t, n) and dt = min(local preferred step,
\* the negotiated step the rejection returned).
C5_Step ==
    /\ pc # "advance" => (t' = t /\ n' = n)
    /\ pc = "advance" =>
         /\ last_adv'.t = (IF last_adv.called THEN last_adv.rt ELSE 0)
         /\ last_adv'.n = (IF last_adv.called THEN last_adv.rn ELSE 0)
         /\ (last_adv.called /\ ~last_adv.accepted) =>
               /\ last_adv'.t = last_adv.t
               /\ last_adv'.n = last_adv.n
               /\ last_adv'.dt = Min(fenics_dt, last_adv.precice_dt)
C5_RetrySameStep == [][C5_Step]_vars

C5_Witness ==
    /\ pc = "assign_dt"
    /\ calls["advance"] >= 2
    /\ ~last_adv.accepted
    /\ last_adv.n >= 1
    /\ last_adv.dt < fenics_dt

\* C6: once is_coupling_ongoing() has returned false the script is on its way
\* out of the loop: no solve and no advance follows, finalize is called exactly
\* once, and never while the coupling is reported ongoing.
C6_Inv ==
    /\ calls["finalize"] <= 1
    /\ ongoing_seen = "ended" => pc \in {"finalize", "done"}
    /\ pc = "done" => calls["finalize"] = 1
    /\ calls["finalize"] = 1 => (ongoing_seen = "ended" /\ ~lib_ongoing)
C6_Step ==
    ongoing_seen = "ended" =>
        (calls'["solve"] = calls["solve"] /\ calls'["advance"] = calls["advance"])
C6_FinalizeOnce == []C6_Inv /\ [][C6_Step]_vars

C6_Witness ==
    /\ pc = "done"
    /\ calls["finalize"] = 1
    /\ calls["advance"] >= 2
    /\ calls["solve"] = calls["advance"]

\* C7: on the boundary exactly one of the two predicates holds, off it neither;
\* the coupling predicate holds iff the point is on the boundary, on the line
\* x = x_coupling and at neither end of it (within tol), so the two corners of
\* the interface belong to the complement.
OnLine(c) == c[1] = x_coupling /\ -tol <= c[2] /\ c[2] <= tol
AtEnd(c) == c[1] \in {y_bottom, y_top} /\ -tol <= c[2] /\ c[2] <= tol
C7_Partition ==
    probe.asked =>
        /\ probe.on_boundary => (probe.coupling # probe.complement)
        /\ ~probe.on_boundary => (~probe.coupling /\ ~probe.complement)
        /\ probe.coupling <=> (probe.on_boundary /\ OnLine(probe.x) /\ ~AtEnd(probe.y))
        /\ (probe.on_boundary /\ OnLine(probe.x) /\ AtEnd(probe.y)) => probe.complement

C7_Witness ==
    /\ probe.asked
    /\ probe.on_boundary
    /\ probe.x = <<x_coupling, 0>>
    /\ probe.y = <<y_top, 0>>
    /\ probe.complement
    /\ ~probe.coupling

\* C8: a node of zero boundary measure whose residual is at least 1e-10 in
\* magnitude ends the process inside the flux evaluator: the advance of that
\* solve is never called and nothing happens afterwards; every node the loop
\* gets past carries residual / measure if its measure is nonzero and the
\* unscaled residual, of magnitude below 1e-10, if it is zero.
C8_Inv ==
    /\ (pc = "flux" /\ i > 0) =>
          /\ node.area # 0 => node.flux = <<node.fluxes_vector, node.area>>
          /\ node.area = 0 => /\ node.flux = <<node.fluxes_vector, 1>>
                              /\ -ResTol < node.fluxes_vector
                              /\ node.fluxes_vector < ResTol
    /\ pc = "aborted" =>
          /\ problem = "DIRICHLET"
          /\ node.area = 0
          /\ (node.fluxes_vector >= ResTol \/ node.fluxes_vector <= -ResTol)
          /\ calls["advance"] = calls["solve"] - 1
    /\ (problem = "DIRICHLET" /\ pc \in {"advance", "assign_dt", "window", "update_bc"}) =>
          i = 0
C8_Step ==
    /\ pc # "aborted"
    /\ (pc = "flux" /\ i < NumNodes /\ pc' = "flux") => i' = i + 1
    /\ (pc = "flux" /\ pc' = "advance") => i = NumNodes
C8_FluxAssertFatal == []C8_Inv /\ [][C8_Step]_vars

C8_Witness ==
    /\ pc = "aborted"
    /\ i >= 1
    /\ calls["solve"] >= 2
    /\ node.fluxes_vector = -ResTol

\* C9: whenever a solve runs, u_D and f hold the time t + dt, with t the
\* controller's time and dt the step this solve uses.
C9_ExprTime ==
    pc \in {"solve", "flux", "advance"} => (u_D_t = t + dt /\ f_t = t + dt)

C9_Witness ==
    /\ pc = "solve"
    /\ last_adv.called
    /\ ~last_adv.accepted
    /\ t >= 1
    /\ dt < last_adv.dt
    /\ u_D_t = t + dt

\* C10: when an advance returned windowComplete = true, u_D holds the returned t
\* when the reference is recomputed, so the reference written for the window is
\* the one at the controller's time; the block changes none of t, n, dt, u_D.t
\* and f.t.
C10_Inv ==
    /\ (pc = "window" /\ precice_timestep_complete) => (u_D_t = t /\ t = last_adv.rt)
    /\ (pc = "update_bc" /\ precice_timestep_complete) => u_ref_t = t
C10_Step ==
    pc = "window" => UNCHANGED <<t, n, dt, u_D_t, f_t>>
C10_ReferenceAtCurrentTime == []C10_Inv /\ [][C10_Step]_vars

C10_Witness ==
    /\ pc = "update_bc"
    /\ precice_timestep_complete
    /\ completes >= 2
    /\ t >= 3
    /\ u_ref_t = t

====
